---- MODULE Spec2Model ----
(***************************************************************************)
(* Model of cpy: a buffered file copy through a block-partitioned ring     *)
(* (buffer.c) shared by one producer thread (producer.c) and one consumer  *)
(* thread (consumer.c), started and joined by main (cpy.c).                *)
(*                                                                         *)
(* Every synchronisation call (sem_wait, sem_trywait, sem_post,            *)
(* pthread_mutex_lock, pthread_mutex_unlock) and every access to a ring    *)
(* cell is one atomic step of the thread that executes it; the thread's    *)
(* private computation between two such calls is folded into the step that *)
(* follows it.  The ring is scaled down (NUM_BLOCKS x BLOCK_SIZE = 2 x 2)  *)
(* from the values of cpy.h; the code is parametric in them.               *)
(***************************************************************************)
EXTENDS Integers, Sequences, FiniteSets, TLC

\* ---- program constants (cpy.h, producer.h, consumer.h), scaled down ----
NUM_BLOCKS == 2
BLOCK_SIZE == 2
BUFFER_SIZE == NUM_BLOCKS * BLOCK_SIZE
PROD_BUFFER_SIZE == 4
CONS_BUFFER_SIZE == 2

\* ---- bounds of the model ----
MaxLen == 5

Bytes == {0, 1, 2}
Blocks == 0 .. (NUM_BLOCKS - 1)
Offsets == 0 .. (BLOCK_SIZE - 1)

RECURSIVE SeqsUpTo(_)
SeqsUpTo(n) ==
  IF n = 0 THEN {<<>>}
  ELSE LET S == SeqsUpTo(n - 1)
       IN  S \cup {Append(s, b) : s \in {t \in S : Len(t) = n - 1}, b \in Bytes}

\* the source files the copy is run on
Inputs == SeqsUpTo(MaxLen)

Min(a, b) == IF a < b THEN a ELSE b

VARIABLES
  input,          \* content of the source file
  srcpos,         \* file offset of the producer's descriptor
  output,         \* bytes the consumer has handed to write(2)
  ring,           \* "uninit" | "live" | "destroyed"
  blk,            \* buf[b].blk[o]
  mutex,          \* owner of buf[b].mutex: "none" | "prod" | "cons"
  empty_spaces,   \* value of the semaphore empty_spaces
  full_spaces,    \* value of the semaphore full_spaces
  mpc,            \* position of main
  ppc,            \* position of the producer thread
  temp_buf,       \* producer's staging buffer (the part send_data is given)
  length,         \* send_data's parameter length
  p_ret,          \* which call of send_data is running: "loop" | "final"
  i,              \* send_data's loop index
  p_write,        \* p->write
  p_cur_block,    \* send_data's cur_block (cur_mutex is its mutex)
  p_end_of_block, \* send_data's end_of_block
  cpc,            \* position of the consumer thread
  c_read,         \* c->read
  c_cur_block,    \* cons_target's cur_block (cur_mutex is its mutex)
  c_end_of_block, \* cons_target's end_of_block
  ch,             \* cons_target's ch
  c_temp_buf,     \* cons_target's temp_buf[0 .. buf_index-1]
  wlog,           \* history: the producer's stores, in order, [b, o, v]
  nread,          \* history: number of ring cells the consumer has read
  posted,         \* history: number of sem_post(full_spaces) executed
  calls,          \* history: number of send_data calls completed
  cellst,         \* history: per cell "free" | "full" | "read"
  ub,             \* history: an unlock of a mutex the caller does not own ran
  pheld,          \* history: bytes the producer stored since it last locked
  cheld,          \* history: bytes the consumer loaded since it last locked
  short           \* history: a read returned less than was asked for and left

ioVars   == <<input, srcpos, output>>
ringVars == <<ring, blk, mutex, empty_spaces, full_spaces>>
prodVars == <<ppc, temp_buf, length, p_ret, i, p_write, p_cur_block, p_end_of_block>>
consVars == <<cpc, c_read, c_cur_block, c_end_of_block, ch, c_temp_buf>>
histVars == <<wlog, nread, posted, calls, cellst, ub, pheld, cheld, short>>
vars == <<ioVars, ringVars, mpc, prodVars, consVars, histVars>>

\* ---- pthread mutex and semaphore primitives ----

\* pthread_mutex_lock: enabled when the mutex is free
CanLock(b) == mutex[b] = "none"
Locked(b, t) == [mutex EXCEPT ![b] = t]

\* pthread_mutex_unlock by thread t.  Unlocking a default mutex the caller
\* does not own is undefined: the call either leaves the mutex as it is or
\* releases it (what a non-checking implementation does).
Unlocked(b, t) ==
  IF mutex[b] = t THEN {[mutex EXCEPT ![b] = "none"]}
  ELSE {mutex, [mutex EXCEPT ![b] = "none"]}

\* sem_wait / sem_trywait succeed only on a positive value
CanWait(s) == s > 0

\* ---- initial state: main entered, nothing constructed ----
Init ==
  /\ input \in Inputs
  /\ srcpos = 0
  /\ output = <<>>
  /\ ring = "uninit"
  /\ blk = [b \in Blocks |-> [o \in Offsets |-> 0]]
  /\ mutex = [b \in Blocks |-> "none"]
  /\ empty_spaces = 0
  /\ full_spaces = 0
  /\ mpc = "m_init"
  /\ ppc = "p_start"
  /\ temp_buf = <<>>
  /\ length = 0
  /\ p_ret = "loop"
  /\ i = 0
  /\ p_write = 0
  /\ p_cur_block = 0
  /\ p_end_of_block = 0
  /\ cpc = "c_start"
  /\ c_read = 0
  /\ c_cur_block = 0
  /\ c_end_of_block = 0
  /\ ch = 0
  /\ c_temp_buf = <<>>
  /\ wlog = <<>>
  /\ nread = 0
  /\ posted = 0
  /\ calls = 0
  /\ cellst = [b \in Blocks |-> [o \in Offsets |-> "free"]]
  /\ ub = FALSE
  /\ pheld = 0
  /\ cheld = 0
  /\ short = FALSE

\* ---- main (cpy.c) ----

\* buffer_init: calloc the blocks, init the mutexes and the two semaphores
buffer_init ==
  /\ mpc = "m_init"
  /\ ring' = "live"
  /\ blk' = [b \in Blocks |-> [o \in Offsets |-> 0]]
  /\ mutex' = [b \in Blocks |-> "none"]
  /\ empty_spaces' = BUFFER_SIZE
  /\ full_spaces' = 0
  /\ mpc' = "m_prod"
  /\ UNCHANGED <<ioVars, prodVars, consVars, histVars>>

\* producer_init: p->write = 0, pthread_create(prod_target)
producer_init ==
  /\ mpc = "m_prod"
  /\ p_write' = 0
  /\ ppc' = "p_open"
  /\ mpc' = "m_cons"
  /\ UNCHANGED <<ioVars, ringVars, consVars, histVars,
                 temp_buf, length, p_ret, i, p_cur_block, p_end_of_block>>

\* consumer_init: c->read = 0, pthread_create(cons_target)
consumer_init ==
  /\ mpc = "m_cons"
  /\ c_read' = 0
  /\ cpc' = "c_open"
  /\ mpc' = "m_joinp"
  /\ UNCHANGED <<ioVars, ringVars, prodVars, histVars,
                 c_cur_block, c_end_of_block, ch, c_temp_buf>>

\* producer_join: pthread_join returns once prod_target has returned
producer_join ==
  /\ mpc = "m_joinp"
  /\ ppc = "p_done"
  /\ mpc' = "m_joinc"
  /\ UNCHANGED <<ioVars, ringVars, prodVars, consVars, histVars>>

\* consumer_join that does not wait for cons_target to return
consumer_join_NoWait ==
  /\ mpc = "m_joinc"
  /\ mpc' = "m_destroy"
  /\ UNCHANGED <<ioVars, ringVars, prodVars, consVars, histVars>>

\* consumer_join: pthread_join returns once cons_target has returned
consumer_join ==
  /\ mpc = "m_joinc"
  /\ cpc = "c_done"
  /\ mpc' = "m_destroy"
  /\ UNCHANGED <<ioVars, ringVars, prodVars, consVars, histVars>>

\* buffer_destroy: destroy the mutexes and semaphores, free the blocks
buffer_destroy ==
  /\ mpc = "m_destroy"
  /\ ring' = "destroyed"
  /\ mpc' = "m_done"
  /\ UNCHANGED <<ioVars, blk, mutex, empty_spaces, full_spaces,
                 prodVars, consVars, histVars>>

\* ---- producer thread: prod_target (producer.c) ----

\* open(p->in_file, O_RDONLY) succeeds
ProdOpen ==
  /\ ppc = "p_open"
  /\ ppc' = "p_read"
  /\ UNCHANGED <<ioVars, ringVars, mpc, consVars, histVars,
                 temp_buf, length, p_ret, i, p_write, p_cur_block, p_end_of_block>>

\* status = read(fd, temp_buf, PROD_BUFFER_SIZE): any count from 1 up to what
\* is asked for and left, 0 only at end of file.  A positive status enters
\* send_data(p, temp_buf, status); status 0 leaves the while loop, stores the
\* null byte in temp_buf[0] and enters send_data(p, temp_buf, 1).
ProdRead ==
  /\ ppc = "p_read"
  /\ \E n \in 0 .. Min(PROD_BUFFER_SIZE, Len(input) - srcpos) :
       /\ (n = 0) <=> (srcpos = Len(input))
       /\ srcpos' = srcpos + n
       /\ short' = (short \/ n < Min(PROD_BUFFER_SIZE, Len(input) - srcpos))
       /\ IF n # 0
          THEN /\ temp_buf' = SubSeq(input, srcpos + 1, srcpos + n)
               /\ length' = n
               /\ p_ret' = "loop"
          ELSE /\ temp_buf' = <<0>>
               /\ length' = 1
               /\ p_ret' = "final"
  /\ ppc' = "sd_wait"
  /\ UNCHANGED <<input, output, ringVars, mpc, consVars, wlog, nread, posted, calls, cellst, ub,
                 pheld, cheld,
                 i, p_write, p_cur_block, p_end_of_block>>

\* close(fd) and return NULL
ProdClose ==
  /\ ppc = "p_close"
  /\ ppc' = "p_done"
  /\ UNCHANGED <<ioVars, ringVars, mpc, consVars, histVars,
                 temp_buf, length, p_ret, i, p_write, p_cur_block, p_end_of_block>>

\* ---- producer thread: send_data (producer.c) ----

\* end_of_block as send_data first computes it (no reduction mod BUFFER_SIZE)
SdEndOfBlock(w) == w - (w % BLOCK_SIZE) + BLOCK_SIZE

\* variant of the block-end update (producer.c:90, consumer.c:154) that
\* omits the reduction mod BUFFER_SIZE
NextEndOfBlock_NoWrap(e) == e + BLOCK_SIZE

\* end_of_block as a block crossing recomputes it (both sides)
NextEndOfBlock(e) == (e + BLOCK_SIZE) % BUFFER_SIZE

\* SdWait with a wait that does not block on a zero semaphore
SdWait_NoBlock ==
  /\ ppc = "sd_wait"
  /\ empty_spaces' = empty_spaces - 1
  /\ p_cur_block' = p_write \div BLOCK_SIZE
  /\ p_end_of_block' = p_write - (p_write % BLOCK_SIZE) + BLOCK_SIZE
  /\ ppc' = "sd_lock"
  /\ UNCHANGED <<ioVars, ring, blk, mutex, full_spaces, mpc, consVars, histVars,
                 temp_buf, length, p_ret, i, p_write>>

\* lines 48-54: cur_block, cur_mutex, end_of_block from p->write, then
\* sem_wait(empty_spaces)
SdWait ==
  /\ ppc = "sd_wait"
  /\ CanWait(empty_spaces)
  /\ empty_spaces' = empty_spaces - 1
  /\ p_cur_block' = p_write \div BLOCK_SIZE
  /\ p_end_of_block' = SdEndOfBlock(p_write)
  /\ ppc' = "sd_lock"
  /\ UNCHANGED <<ioVars, ring, blk, mutex, full_spaces, mpc, consVars, histVars,
                 temp_buf, length, p_ret, i, p_write>>

\* line 55: pthread_mutex_lock(cur_mutex); line 59: i = 0
SdLock ==
  /\ pheld' = 0
  /\ ppc = "sd_lock"
  /\ CanLock(p_cur_block)
  /\ mutex' = Locked(p_cur_block, "prod")
  /\ i' = 0
  /\ ppc' = "sd_for"
  /\ UNCHANGED <<ioVars, ring, blk, empty_spaces, full_spaces, mpc, consVars,
                 wlog, nread, posted, calls, cellst, ub,
                 cheld, short, temp_buf, length, p_ret, p_write, p_cur_block,
                 p_end_of_block>>

\* SdWrite storing d[0] in every iteration
SdWrite_FirstByte ==
  /\ pheld' = pheld + 1
  /\ ppc = "sd_for"
  /\ i < length
  /\ blk' = [blk EXCEPT ![p_cur_block][p_write % BLOCK_SIZE] = temp_buf[1]]
  /\ p_write' = (p_write + 1) % BUFFER_SIZE
  /\ wlog' = Append(wlog, [b |-> p_cur_block, o |-> p_write % BLOCK_SIZE,
                           v |-> temp_buf[1]])
  /\ cellst' = [cellst EXCEPT ![p_cur_block][p_write % BLOCK_SIZE] = "full"]
  /\ ppc' = "sd_post"
  /\ UNCHANGED <<cheld, short, ioVars, ring, mutex, empty_spaces, full_spaces,
                 mpc, consVars, nread, posted, calls, ub, temp_buf, length,
                 p_ret, i, p_cur_block, p_end_of_block>>

\* lines 59-66: i < length: store d[i] in the current block at offset
\* p->write % BLOCK_SIZE and advance p->write
SdWrite ==
  /\ pheld' = pheld + 1
  /\ ppc = "sd_for"
  /\ i < length
  /\ blk' = [blk EXCEPT ![p_cur_block][p_write % BLOCK_SIZE] = temp_buf[i + 1]]
  /\ p_write' = (p_write + 1) % BUFFER_SIZE
  /\ wlog' = Append(wlog, [b |-> p_cur_block, o |-> p_write % BLOCK_SIZE,
                           v |-> temp_buf[i + 1]])
  /\ cellst' = [cellst EXCEPT ![p_cur_block][p_write % BLOCK_SIZE] = "full"]
  /\ ppc' = "sd_post"
  /\ UNCHANGED <<cheld, short, ioVars, ring, mutex, empty_spaces, full_spaces, mpc, consVars,
                 nread, posted, calls, ub, temp_buf, length, p_ret, i,
                 p_cur_block, p_end_of_block>>

\* line 72: sem_post(full_spaces)
SdPost ==
  /\ ppc = "sd_post"
  /\ full_spaces' = full_spaces + 1
  /\ posted' = posted + 1
  /\ ppc' = "sd_try"
  /\ UNCHANGED <<pheld, cheld, short, ioVars, ring, blk, mutex, empty_spaces, mpc, consVars,
                 wlog, nread, calls, cellst, ub, temp_buf, length, p_ret, i,
                 p_write, p_cur_block, p_end_of_block>>

\* line 78: sem_trywait(empty_spaces) succeeds
SdTryOk ==
  /\ ppc = "sd_try"
  /\ CanWait(empty_spaces)
  /\ empty_spaces' = empty_spaces - 1
  /\ ppc' = "sd_cross"
  /\ UNCHANGED <<ioVars, ring, blk, mutex, full_spaces, mpc, consVars, histVars,
                 temp_buf, length, p_ret, i, p_write, p_cur_block, p_end_of_block>>

\* line 78: sem_trywait(empty_spaces) fails with -1
SdTryFail ==
  /\ ppc = "sd_try"
  /\ ~CanWait(empty_spaces)
  /\ ppc' = "sd_unlock_full"
  /\ UNCHANGED <<ioVars, ringVars, mpc, consVars, histVars,
                 temp_buf, length, p_ret, i, p_write, p_cur_block, p_end_of_block>>

\* SdUnlockFull with the unlock of line 79 left out
SdUnlockFull_KeepsLock ==
  /\ ppc = "sd_unlock_full"
  /\ ppc' = "sd_wait2"
  /\ UNCHANGED <<ioVars, ringVars, mpc, consVars, histVars,
                 temp_buf, length, p_ret, i, p_write, p_cur_block, p_end_of_block>>

\* line 79: pthread_mutex_unlock(cur_mutex)
SdUnlockFull ==
  /\ ppc = "sd_unlock_full"
  /\ mutex' \in Unlocked(p_cur_block, "prod")
  /\ ub' = (ub \/ mutex[p_cur_block] # "prod")
  /\ ppc' = "sd_wait2"
  /\ UNCHANGED <<pheld, cheld, short, ioVars, ring, blk, empty_spaces, full_spaces, mpc, consVars,
                 wlog, nread, posted, calls, cellst, temp_buf, length, p_ret, i,
                 p_write, p_cur_block, p_end_of_block>>

\* line 81: sem_wait(empty_spaces)
SdWait2 ==
  /\ ppc = "sd_wait2"
  /\ CanWait(empty_spaces)
  /\ empty_spaces' = empty_spaces - 1
  /\ ppc' = "sd_lock2"
  /\ UNCHANGED <<ioVars, ring, blk, mutex, full_spaces, mpc, consVars, histVars,
                 temp_buf, length, p_ret, i, p_write, p_cur_block, p_end_of_block>>

\* SdLock2 with the lock of line 82 left out
SdLock2_NoLock ==
  /\ ppc = "sd_lock2"
  /\ ppc' = "sd_cross"
  /\ UNCHANGED <<ioVars, ringVars, mpc, consVars, histVars,
                 temp_buf, length, p_ret, i, p_write, p_cur_block, p_end_of_block>>

\* line 82: pthread_mutex_lock(cur_mutex)
SdLock2 ==
  /\ pheld' = 0
  /\ ppc = "sd_lock2"
  /\ CanLock(p_cur_block)
  /\ mutex' = Locked(p_cur_block, "prod")
  /\ ppc' = "sd_cross"
  /\ UNCHANGED <<ioVars, ring, blk, empty_spaces, full_spaces, mpc, consVars,
                 wlog, nread, posted, calls, cellst, ub,
                 cheld, short, temp_buf, length, p_ret, i, p_write, p_cur_block,
                 p_end_of_block>>

\* SdCross with the unlock of line 88 left out
SdCross_NoUnlock ==
  /\ ppc = "sd_cross"
  /\ p_write = p_end_of_block
  /\ p_cur_block' = (p_cur_block + 1) % NUM_BLOCKS
  /\ p_end_of_block' = (p_end_of_block + BLOCK_SIZE) % BUFFER_SIZE
  /\ ppc' = "sd_lock3"
  /\ UNCHANGED <<ioVars, ringVars, mpc, consVars, histVars,
                 temp_buf, length, p_ret, i, p_write>>

\* lines 87-91: p->write == end_of_block: unlock the block, step cur_block
\* and end_of_block
SdCross ==
  /\ ppc = "sd_cross"
  /\ p_write = p_end_of_block
  /\ mutex' \in Unlocked(p_cur_block, "prod")
  /\ ub' = (ub \/ mutex[p_cur_block] # "prod")
  /\ p_cur_block' = (p_cur_block + 1) % NUM_BLOCKS
  /\ p_end_of_block' = NextEndOfBlock(p_end_of_block)
  /\ ppc' = "sd_lock3"
  /\ UNCHANGED <<pheld, cheld, short, ioVars, ring, blk, empty_spaces, full_spaces, mpc, consVars,
                 wlog, nread, posted, calls, cellst, temp_buf, length, p_ret, i,
                 p_write>>

\* line 87 false: next iteration (i++)
SdNoCross ==
  /\ ppc = "sd_cross"
  /\ p_write # p_end_of_block
  /\ i' = i + 1
  /\ ppc' = "sd_for"
  /\ UNCHANGED <<ioVars, ringVars, mpc, consVars, histVars,
                 temp_buf, length, p_ret, p_write, p_cur_block, p_end_of_block>>

\* line 93: pthread_mutex_lock(cur_mutex) of the new block, then i++
SdLock3 ==
  /\ pheld' = 0
  /\ ppc = "sd_lock3"
  /\ CanLock(p_cur_block)
  /\ mutex' = Locked(p_cur_block, "prod")
  /\ i' = i + 1
  /\ ppc' = "sd_for"
  /\ UNCHANGED <<ioVars, ring, blk, empty_spaces, full_spaces, mpc, consVars,
                 wlog, nread, posted, calls, cellst, ub,
                 cheld, short, temp_buf, length, p_ret, p_write, p_cur_block,
                 p_end_of_block>>

\* lines 59, 100: i >= length: pthread_mutex_unlock(cur_mutex) and return to
\* prod_target (the read at line 148, or the close at line 159)
SdUnlockEnd ==
  /\ ppc = "sd_for"
  /\ i >= length
  /\ mutex' \in Unlocked(p_cur_block, "prod")
  /\ ub' = (ub \/ mutex[p_cur_block] # "prod")
  /\ calls' = calls + 1
  /\ ppc' = IF p_ret = "loop" THEN "p_read" ELSE "p_close"
  /\ UNCHANGED <<pheld, cheld, short, ioVars, ring, blk, empty_spaces, full_spaces, mpc, consVars,
                 wlog, nread, posted, cellst, temp_buf, length, p_ret, i,
                 p_write, p_cur_block, p_end_of_block>>

send_data ==
  \/ SdWait \/ SdLock \/ SdWrite \/ SdPost \/ SdTryOk \/ SdTryFail
  \/ SdUnlockFull \/ SdWait2 \/ SdLock2 \/ SdCross \/ SdNoCross \/ SdLock3
  \/ SdUnlockEnd

prod_target == ProdOpen \/ ProdRead \/ send_data \/ ProdClose

\* ---- consumer thread: cons_target (consumer.c) ----

\* end_of_block as cons_target first computes it, after its first byte
ConsEndOfBlock(r) == r - (r % BLOCK_SIZE) + BLOCK_SIZE

\* the cell the consumer read last: c->read has been advanced past it
LastReadOffset == (c_read + BUFFER_SIZE - 1) % BLOCK_SIZE

\* line 49: open(c->out_file, ...) succeeds; lines 56-57: cur_block = 0
ConsOpen ==
  /\ cpc = "c_open"
  /\ c_cur_block' = 0
  /\ cpc' = "c_wait0"
  /\ UNCHANGED <<ioVars, ringVars, mpc, prodVars, histVars,
                 c_read, c_end_of_block, ch, c_temp_buf>>

\* line 62: sem_wait(full_spaces)
ConsWait0 ==
  /\ cpc = "c_wait0"
  /\ CanWait(full_spaces)
  /\ full_spaces' = full_spaces - 1
  /\ cpc' = "c_lock0"
  /\ UNCHANGED <<ioVars, ring, blk, mutex, empty_spaces, mpc, prodVars, histVars,
                 c_read, c_cur_block, c_end_of_block, ch, c_temp_buf>>

\* line 63: pthread_mutex_lock(cur_mutex)
ConsLock0 ==
  /\ cheld' = 0
  /\ cpc = "c_lock0"
  /\ CanLock(c_cur_block)
  /\ mutex' = Locked(c_cur_block, "cons")
  /\ cpc' = "c_read0"
  /\ UNCHANGED <<ioVars, ring, blk, empty_spaces, full_spaces, mpc, prodVars,
                 wlog, nread, posted, calls, cellst, ub,
                 pheld, short, c_read, c_cur_block, c_end_of_block, ch, c_temp_buf>>

\* lines 68-71: ch = buf[0].blk[0]; advance c->read
ConsRead0 ==
  /\ cheld' = cheld + 1
  /\ cpc = "c_read0"
  /\ ch' = blk[0][0]
  /\ c_read' = (c_read + 1) % BUFFER_SIZE
  /\ nread' = nread + 1
  /\ cellst' = [cellst EXCEPT ![0][0] = "read"]
  /\ cpc' = "c_post0"
  /\ UNCHANGED <<pheld, short, ioVars, ringVars, mpc, prodVars, wlog, posted, calls, ub,
                 c_cur_block, c_end_of_block, c_temp_buf>>

\* line 73: sem_post(empty_spaces)
ConsPost0 ==
  /\ cpc = "c_post0"
  /\ empty_spaces' = empty_spaces + 1
  /\ cellst' = [cellst EXCEPT ![c_cur_block][LastReadOffset] = "free"]
  /\ cpc' = "c_try0"
  /\ UNCHANGED <<pheld, cheld, short, ioVars, ring, blk, mutex, full_spaces, mpc, prodVars,
                 wlog, nread, posted, calls, ub,
                 c_read, c_cur_block, c_end_of_block, ch, c_temp_buf>>

\* line 75: sem_trywait(full_spaces) succeeds
ConsTry0Ok ==
  /\ cpc = "c_try0"
  /\ CanWait(full_spaces)
  /\ full_spaces' = full_spaces - 1
  /\ cpc' = "c_eob0"
  /\ UNCHANGED <<ioVars, ring, blk, mutex, empty_spaces, mpc, prodVars, histVars,
                 c_read, c_cur_block, c_end_of_block, ch, c_temp_buf>>

\* line 75: sem_trywait(full_spaces) fails with -1
ConsTry0Fail ==
  /\ cpc = "c_try0"
  /\ ~CanWait(full_spaces)
  /\ cpc' = "c_unlock0"
  /\ UNCHANGED <<ioVars, ringVars, mpc, prodVars, histVars,
                 c_read, c_cur_block, c_end_of_block, ch, c_temp_buf>>

\* line 76: pthread_mutex_unlock(cur_mutex)
ConsUnlock0 ==
  /\ cpc = "c_unlock0"
  /\ mutex' \in Unlocked(c_cur_block, "cons")
  /\ ub' = (ub \/ mutex[c_cur_block] # "cons")
  /\ cpc' = "c_wait1"
  /\ UNCHANGED <<pheld, cheld, short, ioVars, ring, blk, empty_spaces, full_spaces, mpc, prodVars,
                 wlog, nread, posted, calls, cellst,
                 c_read, c_cur_block, c_end_of_block, ch, c_temp_buf>>

\* line 78: sem_wait(full_spaces)
ConsWait1 ==
  /\ cpc = "c_wait1"
  /\ CanWait(full_spaces)
  /\ full_spaces' = full_spaces - 1
  /\ cpc' = "c_lock1"
  /\ UNCHANGED <<ioVars, ring, blk, mutex, empty_spaces, mpc, prodVars, histVars,
                 c_read, c_cur_block, c_end_of_block, ch, c_temp_buf>>

\* line 79: pthread_mutex_lock(cur_mutex)
ConsLock1 ==
  /\ cheld' = 0
  /\ cpc = "c_lock1"
  /\ CanLock(c_cur_block)
  /\ mutex' = Locked(c_cur_block, "cons")
  /\ cpc' = "c_eob0"
  /\ UNCHANGED <<ioVars, ring, blk, empty_spaces, full_spaces, mpc, prodVars,
                 wlog, nread, posted, calls, cellst, ub,
                 pheld, short, c_read, c_cur_block, c_end_of_block, ch, c_temp_buf>>

\* lines 86-98: buf_index = 0, end_of_block from c->read; when c->read ==
\* end_of_block: unlock the block, step cur_block and end_of_block
ConsEob0 ==
  /\ cpc = "c_eob0"
  /\ c_temp_buf' = <<>>
  /\ IF c_read = ConsEndOfBlock(c_read)
     THEN /\ mutex' \in Unlocked(c_cur_block, "cons")
          /\ ub' = (ub \/ mutex[c_cur_block] # "cons")
          /\ c_cur_block' = (c_cur_block + 1) % NUM_BLOCKS
          /\ c_end_of_block' = NextEndOfBlock(ConsEndOfBlock(c_read))
          /\ cpc' = "c_lock2"
     ELSE /\ c_end_of_block' = ConsEndOfBlock(c_read)
          /\ cpc' = "c_while"
          /\ UNCHANGED <<mutex, ub, c_cur_block>>
  /\ UNCHANGED <<pheld, cheld, short, ioVars, ring, blk, empty_spaces, full_spaces, mpc, prodVars,
                 wlog, nread, posted, calls, cellst, c_read, ch>>

\* lines 105-134: ch != 0: flush temp_buf to the file when it is full, stage
\* ch, read the next byte of the current block at offset c->read %
\* BLOCK_SIZE and advance c->read
ConsRead ==
  /\ cheld' = cheld + 1
  /\ cpc = "c_while"
  /\ ch # 0
  /\ IF Len(c_temp_buf) >= CONS_BUFFER_SIZE
     THEN /\ output' = output \o c_temp_buf
          /\ c_temp_buf' = <<ch>>
     ELSE /\ output' = output
          /\ c_temp_buf' = Append(c_temp_buf, ch)
  /\ ch' = blk[c_cur_block][c_read % BLOCK_SIZE]
  /\ c_read' = (c_read + 1) % BUFFER_SIZE
  /\ nread' = nread + 1
  /\ cellst' = [cellst EXCEPT ![c_cur_block][c_read % BLOCK_SIZE] = "read"]
  /\ cpc' = "c_post"
  /\ UNCHANGED <<pheld, short, input, srcpos, ringVars, mpc, prodVars, wlog, posted, calls, ub,
                 c_cur_block, c_end_of_block>>

\* ConsPost with empty_spaces posted twice for one byte
ConsPost_Twice ==
  /\ cpc = "c_post"
  /\ empty_spaces' = empty_spaces + 2
  /\ cellst' = [cellst EXCEPT ![c_cur_block][LastReadOffset] = "free"]
  /\ cpc' = "c_try"
  /\ UNCHANGED <<pheld, cheld, short, ioVars, ring, blk, mutex, full_spaces, mpc,
                 prodVars, wlog, nread, posted, calls, ub,
                 c_read, c_cur_block, c_end_of_block, ch, c_temp_buf>>

\* line 138: sem_post(empty_spaces)
ConsPost ==
  /\ cpc = "c_post"
  /\ empty_spaces' = empty_spaces + 1
  /\ cellst' = [cellst EXCEPT ![c_cur_block][LastReadOffset] = "free"]
  /\ cpc' = "c_try"
  /\ UNCHANGED <<pheld, cheld, short, ioVars, ring, blk, mutex, full_spaces, mpc, prodVars,
                 wlog, nread, posted, calls, ub,
                 c_read, c_cur_block, c_end_of_block, ch, c_temp_buf>>

\* line 143: sem_trywait(full_spaces) succeeds
ConsTryOk ==
  /\ cpc = "c_try"
  /\ CanWait(full_spaces)
  /\ full_spaces' = full_spaces - 1
  /\ cpc' = "c_cross"
  /\ UNCHANGED <<ioVars, ring, blk, mutex, empty_spaces, mpc, prodVars, histVars,
                 c_read, c_cur_block, c_end_of_block, ch, c_temp_buf>>

\* line 143: sem_trywait(full_spaces) fails with -1
ConsTryFail ==
  /\ cpc = "c_try"
  /\ ~CanWait(full_spaces)
  /\ cpc' = "c_unlock_empty"
  /\ UNCHANGED <<ioVars, ringVars, mpc, prodVars, histVars,
                 c_read, c_cur_block, c_end_of_block, ch, c_temp_buf>>

\* lines 144-146: pthread_mutex_unlock(cur_mutex); break when ch is the null
\* byte, else go on to the blocking wait
ConsUnlockEmpty ==
  /\ cpc = "c_unlock_empty"
  /\ mutex' \in Unlocked(c_cur_block, "cons")
  /\ ub' = (ub \/ mutex[c_cur_block] # "cons")
  /\ cpc' = IF ch = 0 THEN "c_break" ELSE "c_wait2"
  /\ UNCHANGED <<pheld, cheld, short, ioVars, ring, blk, empty_spaces, full_spaces, mpc, prodVars,
                 wlog, nread, posted, calls, cellst,
                 c_read, c_cur_block, c_end_of_block, ch, c_temp_buf>>

\* line 147: sem_wait(full_spaces)
ConsWait2 ==
  /\ cpc = "c_wait2"
  /\ CanWait(full_spaces)
  /\ full_spaces' = full_spaces - 1
  /\ cpc' = "c_lock3"
  /\ UNCHANGED <<ioVars, ring, blk, mutex, empty_spaces, mpc, prodVars, histVars,
                 c_read, c_cur_block, c_end_of_block, ch, c_temp_buf>>

\* line 148: pthread_mutex_lock(cur_mutex)
ConsLock3 ==
  /\ cheld' = 0
  /\ cpc = "c_lock3"
  /\ CanLock(c_cur_block)
  /\ mutex' = Locked(c_cur_block, "cons")
  /\ cpc' = "c_cross"
  /\ UNCHANGED <<ioVars, ring, blk, empty_spaces, full_spaces, mpc, prodVars,
                 wlog, nread, posted, calls, cellst, ub,
                 pheld, short, c_read, c_cur_block, c_end_of_block, ch, c_temp_buf>>

\* lines 153-157: c->read == end_of_block: unlock the block, step cur_block
\* and end_of_block
ConsCross ==
  /\ cpc = "c_cross"
  /\ c_read = c_end_of_block
  /\ mutex' \in Unlocked(c_cur_block, "cons")
  /\ ub' = (ub \/ mutex[c_cur_block] # "cons")
  /\ c_cur_block' = (c_cur_block + 1) % NUM_BLOCKS
  /\ c_end_of_block' = NextEndOfBlock(c_end_of_block)
  /\ cpc' = "c_lock4"
  /\ UNCHANGED <<pheld, cheld, short, ioVars, ring, blk, empty_spaces, full_spaces, mpc, prodVars,
                 wlog, nread, posted, calls, cellst, c_read, ch, c_temp_buf>>

\* line 153 false: back to the loop test
ConsNoCross ==
  /\ cpc = "c_cross"
  /\ c_read # c_end_of_block
  /\ cpc' = "c_while"
  /\ UNCHANGED <<ioVars, ringVars, mpc, prodVars, histVars,
                 c_read, c_cur_block, c_end_of_block, ch, c_temp_buf>>

\* line 99 or line 159: pthread_mutex_lock(cur_mutex) of the new block
ConsLock4 ==
  /\ cheld' = 0
  /\ cpc \in {"c_lock2", "c_lock4"}
  /\ CanLock(c_cur_block)
  /\ mutex' = Locked(c_cur_block, "cons")
  /\ cpc' = "c_while"
  /\ UNCHANGED <<ioVars, ring, blk, empty_spaces, full_spaces, mpc, prodVars,
                 wlog, nread, posted, calls, cellst, ub,
                 pheld, short, c_read, c_cur_block, c_end_of_block, ch, c_temp_buf>>

\* line 167: pthread_mutex_unlock(cur_mutex) after the loop, reached from
\* the loop test (ch == 0) or from the break at line 146
ConsUnlockEnd ==
  /\ \/ cpc = "c_while" /\ ch = 0
     \/ cpc = "c_break"
  /\ mutex' \in Unlocked(c_cur_block, "cons")
  /\ ub' = (ub \/ mutex[c_cur_block] # "cons")
  /\ cpc' = "c_flush"
  /\ UNCHANGED <<pheld, cheld, short, ioVars, ring, blk, empty_spaces, full_spaces, mpc, prodVars,
                 wlog, nread, posted, calls, cellst,
                 c_read, c_cur_block, c_end_of_block, ch, c_temp_buf>>

\* lines 171-179: write what is staged, all of it accepted
ConsFlush ==
  /\ cpc = "c_flush"
  /\ output' = output \o c_temp_buf
  /\ cpc' = "c_close"
  /\ UNCHANGED <<input, srcpos, ringVars, mpc, prodVars, histVars,
                 c_read, c_cur_block, c_end_of_block, ch, c_temp_buf>>

\* lines 182-189: close(fd) and return NULL
ConsClose ==
  /\ cpc = "c_close"
  /\ cpc' = "c_done"
  /\ UNCHANGED <<ioVars, ringVars, mpc, prodVars, histVars,
                 c_read, c_cur_block, c_end_of_block, ch, c_temp_buf>>

cons_target ==
  \/ ConsOpen \/ ConsWait0 \/ ConsLock0 \/ ConsRead0 \/ ConsPost0
  \/ ConsTry0Ok \/ ConsTry0Fail \/ ConsUnlock0 \/ ConsWait1 \/ ConsLock1
  \/ ConsEob0
  \/ ConsRead \/ ConsPost \/ ConsTryOk \/ ConsTryFail \/ ConsUnlockEmpty
  \/ ConsWait2 \/ ConsLock3 \/ ConsCross \/ ConsNoCross \/ ConsLock4
  \/ ConsUnlockEnd \/ ConsFlush \/ ConsClose

main == buffer_init \/ producer_init \/ consumer_init
        \/ producer_join \/ consumer_join \/ buffer_destroy

Next == main \/ prod_target \/ cons_target

Spec == Init /\ [][Next]_vars

\* ---- source failures (prod_target) ----

\* line 122-125: open(p->in_file, O_RDONLY) returns -1: report, return NULL
ProdOpenFail ==
  /\ ppc = "p_open"
  /\ ppc' = "p_done"
  /\ UNCHANGED <<ioVars, ringVars, mpc, consVars, histVars,
                 temp_buf, length, p_ret, i, p_write, p_cur_block, p_end_of_block>>

\* lines 133, 148: read returns -1: status is nonzero, the while loop runs
\* and calls send_data(p, temp_buf, -1)
ProdReadErr ==
  /\ ppc = "p_read"
  /\ length' = -1
  /\ p_ret' = "loop"
  /\ ppc' = "sd_wait"
  /\ UNCHANGED <<ioVars, ringVars, mpc, consVars, histVars,
                 temp_buf, i, p_write, p_cur_block, p_end_of_block>>

NextErr == Next \/ ProdOpenFail \/ ProdReadErr

\* the copy with a source that may fail to open or to be read
SpecErr == Init /\ [][NextErr]_vars

\* ---- the points the properties speak about ----

\* the producer is about to execute the store of line 63
ProdAboutToWrite == ppc = "sd_for" /\ i < length

\* the consumer is about to execute the load of line 68 or of line 131
ConsAboutToRead == cpc = "c_read0" \/ (cpc = "c_while" /\ ch # 0)

\* the block and offset that load indexes
ConsReadBlock == IF cpc = "c_read0" THEN 0 ELSE c_cur_block
ConsReadOffset == IF cpc = "c_read0" THEN 0 ELSE c_read % BLOCK_SIZE

\* between a lock of cur_mutex and its matching unlock
ProdInLockRegion ==
  ppc \in {"sd_for", "sd_post", "sd_try", "sd_unlock_full", "sd_cross"}
ConsInLockRegion ==
  cpc \in {"c_read0", "c_post0", "c_try0", "c_unlock0", "c_eob0", "c_while",
           "c_post", "c_try", "c_unlock_empty", "c_cross"}

\* executing, or blocked in, a blocking sem_wait
ProdInSemWait == ppc \in {"sd_wait", "sd_wait2"}
ConsInSemWait == cpc \in {"c_wait0", "c_wait1", "c_wait2"}

NoZero(s) == \A k \in 1 .. Len(s) : s[k] # 0

\* ---- properties ----

\* C1: for an input without a null byte, once the consumer has terminated
\* the bytes it handed to the writer are exactly the input.
C1_Fidelity == (cpc = "c_done" /\ NoZero(input)) => output = input

\* C2: the copy runs to completion: no reachable state short of the end of
\* main is one in which no thread can take a step.
C2_RunsToCompletion == (mpc # "m_done") => ENABLED Next

\* C3: once the consumer has read the null byte it is never in a blocking
\* sem_wait on full_spaces.
C3_SentinelStops == (nread > 0 /\ ch = 0) => ~ConsInSemWait

\* C4: the consumer's k-th load comes after the producer's k-th store and
\* its sem_post(full_spaces), indexes the cell that store wrote and finds
\* its value there.
C4_ReadsKthWrite ==
  ConsAboutToRead =>
    LET k == nread + 1
    IN  /\ k <= posted
        /\ k <= Len(wlog)
        /\ wlog[k].b = ConsReadBlock
        /\ wlog[k].o = ConsReadOffset
        /\ wlog[k].v = blk[ConsReadBlock][ConsReadOffset]

\* C5: every store of the producer goes to a cell that is free: never
\* written, or read by the consumer and released with sem_post(empty_spaces).
C5_NoOverwrite ==
  ProdAboutToWrite => cellst[p_cur_block][p_write % BLOCK_SIZE] = "free"

\* C6: a thread executing or blocked in a blocking sem_wait owns no block
\* mutex.
C6_NoLockAcrossWait ==
  /\ ProdInSemWait => \A b \in Blocks : mutex[b] # "prod"
  /\ ConsInSemWait => \A b \in Blocks : mutex[b] # "cons"

\* C6 witness: the producer's trywait failed, it released its block and is
\* blocked in sem_wait while the consumer owns that block.
C6_Witness ==
  /\ ppc = "sd_wait2"
  /\ empty_spaces = 0
  /\ mutex[p_cur_block] = "cons"

\* C7: the producer and the consumer are never both between lock and
\* unlock of the same block's mutex.
C7_LockExclusive ==
  ~(ProdInLockRegion /\ ConsInLockRegion /\ p_cur_block = c_cur_block)

\* C7 witness: the consumer is inside its locked region on the block whose
\* mutex the producer is waiting to lock.
C7_Witness ==
  /\ ppc \in {"sd_lock", "sd_lock2", "sd_lock3"}
  /\ ConsInLockRegion
  /\ p_cur_block = c_cur_block
  /\ mutex[c_cur_block] = "cons"

\* C8: at every store of the producer and every load of the consumer the
\* accessing thread owns the mutex of the block it accesses.
C8_AccessUnderLock ==
  /\ ProdAboutToWrite => mutex[p_cur_block] = "prod"
  /\ ConsAboutToRead => mutex[ConsReadBlock] = "cons"

\* C9: at every store and load at cursor position p the block indexed (and
\* locked) is p / BLOCK_SIZE.
C9_CursorBlock ==
  /\ ProdAboutToWrite => p_cur_block = p_write \div BLOCK_SIZE
  /\ ConsAboutToRead => ConsReadBlock = c_read \div BLOCK_SIZE
                        /\ ConsReadOffset = c_read % BLOCK_SIZE

\* C10: bytes written minus bytes read is within [0, BUFFER_SIZE] and no
\* semaphore is negative.
C10_BoundedOccupancy ==
  /\ Len(wlog) - nread >= 0
  /\ Len(wlog) - nread <= BUFFER_SIZE
  /\ empty_spaces >= 0
  /\ full_spaces >= 0

\* C10 witness: the ring is full: BUFFER_SIZE bytes written and not read,
\* no empty space left.
C10_Witness ==
  /\ Len(wlog) - nread = BUFFER_SIZE
  /\ empty_spaces = 0
  /\ full_spaces > 0

\* C11: from construction on, empty_spaces + full_spaces <= BUFFER_SIZE, and
\* buffer_init leaves empty_spaces = BUFFER_SIZE and full_spaces = 0.
C11_SlotSum ==
  /\ ring # "uninit" => empty_spaces + full_spaces <= BUFFER_SIZE
  /\ mpc = "m_prod" => empty_spaces = BUFFER_SIZE /\ full_spaces = 0

\* C11 witness: bytes are in the ring and no slot is in transfer: the sum
\* is exactly BUFFER_SIZE.
C11_Witness ==
  /\ ring = "live"
  /\ full_spaces > 0
  /\ empty_spaces + full_spaces = BUFFER_SIZE

\* C12: the shortfall BUFFER_SIZE - (empty_spaces + full_spaces) never
\* exceeds the two slots that can be in transfer, one per side.
C12_SlotConservation ==
  ring = "live" => BUFFER_SIZE - (empty_spaces + full_spaces) <= 2

\* the part of s before its first null byte (all of s when it has none)
RECURSIVE PrefixBeforeZero(_)
PrefixBeforeZero(s) ==
  IF s = <<>> \/ Head(s) = 0 THEN <<>>
  ELSE <<Head(s)>> \o PrefixBeforeZero(Tail(s))

IsPrefix(s, t) == Len(s) <= Len(t) /\ SubSeq(t, 1, Len(s)) = s

\* the byte values the producer has stored into the ring, in order
WrittenValues == [k \in 1 .. Len(wlog) |-> wlog[k].v]

\* C13: for an input with a null byte, once the consumer has terminated the
\* bytes it handed to the writer are the input before its first null byte.
C13_SentinelBoundary ==
  (cpc = "c_done" /\ ~NoZero(input)) => output = PrefixBeforeZero(input)

\* C14: what the producer has stored is a prefix of the input followed by one
\* null byte, and all of it once send_data has returned for the last time.
C14_ProducerStream ==
  /\ IsPrefix(WrittenValues, input \o <<0>>)
  /\ ppc \in {"p_close", "p_done"} => WrittenValues = input \o <<0>>

\* C14 witness: the producer has returned after sending an input of at
\* least three bytes in several reads.
C14_Witness ==
  /\ ppc = "p_done"
  /\ short
  /\ Len(input) >= 3
  /\ WrittenValues = input \o <<0>>

\* C15: after a failed open or a failed read of the source the producer
\* stores nothing more and performs no semaphore or lock operation: after a
\* failed open the ring is untouched, and after a read that returned -1 the
\* producer does not get past the entry of send_data.
C15_SourceFailure ==
  /\ (ppc = "p_done" /\ calls = 0) =>
       wlog = <<>> /\ posted = 0 /\ empty_spaces = BUFFER_SIZE
  /\ length < 0 => ppc \in {"sd_wait", "p_done"}

\* ---- the copy when every read returns all that is asked for and left ----

\* no thread can take a step and main has not returned
Stuck == mpc # "m_done" /\ ~ENABLED Next

\* number of send_data calls for n source bytes read PROD_BUFFER_SIZE at a
\* time, the call for the null byte included
FullReadCalls(n) == (n + PROD_BUFFER_SIZE - 1) \div PROD_BUFFER_SIZE + 1

\* whether that copy terminates: each call takes one empty_spaces unit per
\* byte and one more, and the consumer gives one back per byte up to and
\* with the first null byte; on the empty input the consumer never returns
FullReadTerminates(s) ==
  /\ s # <<>>
  /\ Len(s) + FullReadCalls(Len(s)) <= BUFFER_SIZE + Len(PrefixBeforeZero(s))

\* the outcome of a copy whose reads were all full is the one stated above
FullReadOutcome ==
  ~short =>
    /\ Stuck => ~FullReadTerminates(input)
    /\ mpc = "m_done" => FullReadTerminates(input)
    /\ cpc = "c_done" => output = PrefixBeforeZero(input)

\* C16: the outcome of the copy does not depend on how the reads split the
\* input: whether the threads terminate and what is delivered are as in
\* the copy whose reads are all full.
C16_ChunkingIndependent ==
  /\ Stuck => ~FullReadTerminates(input)
  /\ mpc = "m_done" => FullReadTerminates(input)
  /\ cpc = "c_done" => output = PrefixBeforeZero(input)

\* the block mutexes thread t owns
Owned(t) == {b \in Blocks : mutex[b] = t}

\* C17: neither the producer nor the consumer ever owns two block mutexes.
C17_OneLockPerSide ==
  /\ Cardinality(Owned("prod")) <= 1
  /\ Cardinality(Owned("cons")) <= 1

\* C17 witness: the producer has crossed into a new block inside a call: it
\* owns the new block's mutex only, and the consumer owns another block.
C17_Witness ==
  /\ ppc = "sd_for"
  /\ i > 0
  /\ pheld = 0
  /\ p_write = p_cur_block * BLOCK_SIZE
  /\ Owned("prod") = {p_cur_block}
  /\ Owned("cons") # {}

\* C18: no worker runs before buffer_init, and once buffer_destroy has run
\* both workers have returned.
C18_RingLifetime ==
  /\ ring = "uninit" => ppc = "p_start" /\ cpc = "c_start"
  /\ ring = "destroyed" => ppc = "p_done" /\ cpc = "c_done"
  /\ mpc \in {"m_destroy", "m_done"} => ppc = "p_done" /\ cpc = "c_done"

\* C18 witness: the ring is destroyed after a copy that delivered bytes.
C18_Witness ==
  /\ ring = "destroyed"
  /\ output # <<>>
  /\ ppc = "p_done"
  /\ cpc = "c_done"

\* the position of the byte a side transferred last, its cursor being q
LastPos(q) == (q + BUFFER_SIZE - 1) % BUFFER_SIZE

\* the end of the block of position q, reduced mod BUFFER_SIZE
WrappedEnd(q) == (q - (q % BLOCK_SIZE) + BLOCK_SIZE) % BUFFER_SIZE

\* C19: wherever a side compares its position with end_of_block (lines 87 of
\* producer.c, 93 and 153 of consumer.c), end_of_block is the end of the
\* block of the byte just transferred, reduced mod BUFFER_SIZE.
C19_BlockEnd ==
  /\ ppc = "sd_cross" => p_end_of_block = WrappedEnd(LastPos(p_write))
  /\ cpc = "c_cross" => c_end_of_block = WrappedEnd(LastPos(c_read))
  /\ cpc = "c_eob0" => ConsEndOfBlock(c_read) = WrappedEnd(LastPos(c_read))

C21_UnlockOwned == ~ub

\* ---- destination and close failures (cons_target, prod_target) ----

\* lines 49-52: open(c->out_file, ...) returns -1: report, return NULL
ConsOpenFail ==
  /\ cpc = "c_open"
  /\ cpc' = "c_done"
  /\ UNCHANGED <<ioVars, ringVars, mpc, prodVars, histVars,
                 c_read, c_cur_block, c_end_of_block, ch, c_temp_buf>>

\* lines 109-117: temp_buf is full and write accepts only n of its bytes:
\* report and return NULL from inside the loop
ConsWriteShort ==
  /\ cpc = "c_while"
  /\ ch # 0
  /\ Len(c_temp_buf) >= CONS_BUFFER_SIZE
  /\ \E n \in 0 .. Len(c_temp_buf) - 1 :
       output' = output \o SubSeq(c_temp_buf, 1, n)
  /\ cpc' = "c_done"
  /\ UNCHANGED <<input, srcpos, ringVars, mpc, prodVars, histVars,
                 c_read, c_cur_block, c_end_of_block, ch, c_temp_buf>>

\* lines 171-176: the final write accepts only n of the staged bytes:
\* report and return NULL
ConsFlushShort ==
  /\ cpc = "c_flush"
  /\ c_temp_buf # <<>>
  /\ \E n \in 0 .. Len(c_temp_buf) - 1 :
       output' = output \o SubSeq(c_temp_buf, 1, n)
  /\ cpc' = "c_done"
  /\ UNCHANGED <<input, srcpos, ringVars, mpc, prodVars, histVars,
                 c_read, c_cur_block, c_end_of_block, ch, c_temp_buf>>

\* lines 182-185: close(fd) fails: report, return NULL
ConsCloseFail ==
  /\ cpc = "c_close"
  /\ cpc' = "c_done"
  /\ UNCHANGED <<ioVars, ringVars, mpc, prodVars, histVars,
                 c_read, c_cur_block, c_end_of_block, ch, c_temp_buf>>

\* producer.c lines 159-162: close(fd) fails: report, return NULL
ProdCloseFail ==
  /\ ppc = "p_close"
  /\ ppc' = "p_done"
  /\ UNCHANGED <<ioVars, ringVars, mpc, consVars, histVars,
                 temp_buf, length, p_ret, i, p_write, p_cur_block, p_end_of_block>>

NextFail ==
  \/ Next
  \/ ProdOpenFail \/ ProdCloseFail
  \/ ConsOpenFail \/ ConsWriteShort \/ ConsFlushShort \/ ConsCloseFail

\* the copy with files that may fail to open, to close, or to take a write
SpecFail == Init /\ [][NextFail]_vars

\* C22: a worker thread that has returned, on whatever path, owns no block
\* mutex.
C22_TerminatedOwnsNone ==
  /\ ppc = "p_done" => Owned("prod") = {}
  /\ cpc = "c_done" => Owned("cons") = {}

====
